---- MODULE Spec2Model ----
(***************************************************************************)
(* Model of the vss package: resolution of a namespace against a VSS tree  *)
(* (find_signal, _find_signal), the instance matcher (_expand_instances,   *)
(* _consume_instance, _parse_instances) and Signal construction/clamp.     *)
(*                                                                         *)
(* Python values are records [t |-> <type tag>, v |-> <payload>]:          *)
(*   str   : v is the sequence of its characters (one-character strings)   *)
(*           where the code inspects characters (namespace segments,       *)
(*           instance names, datatype), or an opaque TLA+ string (type,    *)
(*           unit, uuid, description);                                     *)
(*   list / tuple : v is a sequence of Python values;                      *)
(*   dict  : v is a function from keys to Python values (node dicts are    *)
(*           keyed by TLA+ strings, child and domain mappings by           *)
(*           character sequences);                                         *)
(*   int / float / bool : v + h/2 is the number (h \in {0, 1}), so that    *)
(*           fractional values and int() truncation exist in the model.    *)
(* An exception is a record [exc |-> <class>, msg |-> <message stem>].     *)
(***************************************************************************)
EXTENDS Integers, Sequences, FiniteSets, TLC

VARIABLES tree, tree0, name, result, calls, clampIn, clampOut, pin, pout

vars == <<tree, tree0, name, result, calls, clampIn, clampOut, pin, pout>>

\* ---------------------------------------------------------------- bounds
MaxCalls == 2

\* ------------------------------------------------------- Python values
PyNone == [t |-> "None"]
PyStr(s) == [t |-> "str", v |-> s]
PyList(l) == [t |-> "list", v |-> l]
PyTuple(l) == [t |-> "tuple", v |-> l]
PyDict(d) == [t |-> "dict", v |-> d]
PyInt(n) == [t |-> "int", v |-> n, h |-> 0]
PyFloat(n, half) == [t |-> "float", v |-> n, h |-> half]
PyBool(b) == [t |-> "bool", v |-> IF b THEN 1 ELSE 0, h |-> 0]

Raise(cls, m) == [exc |-> cls, msg |-> m]
IsExc(r) == "exc" \in DOMAIN r

\* isinstance(x, str), isinstance(x, list), ...; bool is a subclass of int.
IsStr(x) == x.t = "str"
IsList(x) == x.t = "list"
IsDictV(x) == x.t = "dict"
IsInstInt(x) == x.t \in {"int", "bool"}
IsInstFloat(x) == x.t = "float"
IsInstBool(x) == x.t = "bool"

\* all(p(i) for i in l)
AllStr(l) == \A k \in 1..Len(l) : IsStr(l[k])
AllList(l) == \A k \in 1..Len(l) : IsList(l[k])

\* ------------------------------------------------------------- strings
Digits == <<"0", "1", "2", "3", "4", "5", "6", "7", "8", "9">>
IsDigit(c) == \E d \in 1..10 : Digits[d] = c
DigitVal(c) == (CHOOSE d \in 1..10 : Digits[d] = c) - 1

\* int(match.group(k)) on a non-empty run of decimal digits
RECURSIVE StrToInt(_)
StrToInt(s) ==
    IF Len(s) = 0 THEN 0
    ELSE 10 * StrToInt(SubSeq(s, 1, Len(s) - 1)) + DigitVal(s[Len(s)])

\* f'{i}' for i >= 0
RECURSIVE IntToStr(_)
IntToStr(i) ==
    IF i < 10 THEN <<Digits[i + 1]>>
    ELSE IntToStr(i \div 10) \o <<Digits[(i % 10) + 1]>>

\* '.'.split: name.split('.')
RECURSIVE Split(_, _)
Split(s, cur) ==
    IF Len(s) = 0 THEN <<cur>>
    ELSE IF Head(s) = "." THEN <<cur>> \o Split(Tail(s), <<>>)
    ELSE Split(Tail(s), Append(cur, Head(s)))

\* re.fullmatch(r'(.*)\[(\d+),(\d+)\]', s): the positions <<i, j>> of the
\* '[' and the ',' of the trailing "[digits,digits]"; at most one pair.
RangeMatch(s) ==
    {p \in (1..Len(s)) \X (1..Len(s)) :
        /\ s[Len(s)] = "]"
        /\ s[p[1]] = "["
        /\ s[p[2]] = ","
        /\ p[1] + 1 < p[2]
        /\ p[2] + 1 < Len(s)
        /\ \A k \in (p[1] + 1)..(p[2] - 1) : IsDigit(s[k])
        /\ \A k \in (p[2] + 1)..(Len(s) - 1) : IsDigit(s[k])
        /\ \A k \in 1..(p[1] - 1) : s[k] # "\n"}

\* ---------------------------------------------------- instance matcher
\* _expand_instances(instances: str, namespace, idx) -> List[str]
_expand_instances(instances) ==
    LET m == RangeMatch(instances) IN
    IF m = {} THEN Raise("VSSSpecError", "malformed instance")
    ELSE LET p == CHOOSE q \in m : TRUE
             nm == SubSeq(instances, 1, p[1] - 1)
             lower == StrToInt(SubSeq(instances, p[1] + 1, p[2] - 1))
             upper == StrToInt(SubSeq(instances, p[2] + 1, Len(instances) - 1))
         IN IF upper <= lower THEN Raise("VSSSpecError", "empty range")
            ELSE PyList([k \in 1..(upper - lower + 1) |-> PyStr(nm \o IntToStr(lower + k - 1))])

\* name in instances (a list of str)
InList(nm, l) == \E k \in 1..Len(l) : IsStr(l[k]) /\ l[k].v = nm

\* variant of _consume_instance: an exhausted namespace is reported as a
\* defect of the tree
ConsumeInstanceSpecError(instances, namespace, idx) ==
    IF idx + 1 > Len(namespace)
    THEN Raise("VSSSpecError", "has instances, expected one of")
    ELSE IF ~InList(namespace[idx + 1], instances)
    THEN Raise("VSSBranchError", "illegal instance")
    ELSE [val |-> idx + 1]

\* _consume_instance(instances: List[str], namespace, idx) -> int
_consume_instance(instances, namespace, idx) ==
    IF idx + 1 > Len(namespace)
    THEN Raise("VSSBranchError", "has instances, expected one of")
    ELSE IF ~InList(namespace[idx + 1], instances)
    THEN Raise("VSSBranchError", "illegal instance")
    ELSE [val |-> idx + 1]

\* typeguard's check of an argument against
\* Instances = Union[str, List[Union[str, List[str]]]]
TypeOkInstances(x) ==
    \/ IsStr(x)
    \/ /\ IsList(x)
       /\ \A k \in 1..Len(x.v) :
            \/ IsStr(x.v[k])
            \/ IsList(x.v[k]) /\ AllStr(x.v[k].v)

\* the loop of _parse_instances over the axes pos..len(instances)-1
RECURSIVE ConsumeAxes(_, _, _, _)
ConsumeAxes(axes, pos, namespace, idx) ==
    IF pos > Len(axes) THEN [val |-> idx]
    ELSE IF ~AllStr(axes[pos].v) THEN Raise("VSSSpecError", "illegal nested instance")
    ELSE LET r == _consume_instance(axes[pos].v, namespace, idx) IN
         IF IsExc(r) THEN r ELSE ConsumeAxes(axes, pos + 1, namespace, r.val)

\* variant of KeepOnSpecError: only the failing elements are left as they were
KeepPerElement(l, e) == [k \in 1..Len(l) |-> IF IsExc(e[k]) THEN l[k] ELSE e[k]]

\* lines 218-221: instances = [_expand_instances(i, ...) if isinstance(i, str)
\* else i for i in instances] inside try/except VSSSpecError: pass -- with `e`
\* the element-wise result, one failing element leaves the list as it was.
KeepOnSpecError(l, e) == IF \E k \in 1..Len(l) : IsExc(e[k]) THEN l ELSE e
ExpandElements(l) ==
    KeepOnSpecError(l,
        [k \in 1..Len(l) |-> IF IsStr(l[k]) THEN _expand_instances(l[k].v) ELSE l[k]])

\* lines 223-241: match the namespace against the expanded list
MatchInstances(l, namespace, idx) ==
    IF AllStr(l) THEN _consume_instance(l, namespace, idx)
    ELSE IF AllList(l) THEN ConsumeAxes(l, 1, namespace, idx)
    ELSE Raise("VSSSpecError", "malformed instances")

\* lines 212-213: a str is replaced by its expansion, whose failure propagates
ParseExpanded(first, namespace, idx) ==
    IF IsExc(first) THEN first
    ELSE MatchInstances(ExpandElements(first.v), namespace, idx)

\* _parse_instances(instances: Instances, namespace, idx) -> int
_parse_instances(instances, namespace, idx) ==
    IF ~TypeOkInstances(instances) THEN Raise("TypeError", "type of argument instances")
    ELSE IF IsStr(instances)
    THEN ParseExpanded(_expand_instances(instances.v), namespace, idx)
    ELSE IF Len(instances.v) = 0 THEN Raise("VSSSpecError", "empty instances array")
    ELSE MatchInstances(ExpandElements(instances.v), namespace, idx)

\* -------------------------------------------------------------- numbers
IsNum(x) == x.t \in {"int", "float", "bool"}
Lt(a, b) == a.v < b.v \/ (a.v = b.v /\ a.h < b.h)
NumEq(a, b) == a.v = b.v /\ a.h = b.h
Le(a, b) == Lt(a, b) \/ NumEq(a, b)
\* max(a, b) and min(a, b) of Python: the first argument wins a tie
PyMax(a, b) == IF Lt(a, b) THEN b ELSE a
PyMin(a, b) == IF Lt(b, a) THEN b ELSE a
\* int(x) truncates toward zero; float(x) keeps the value
ToInt(x) == PyInt(IF x.h = 1 /\ x.v < 0 THEN x.v + 1 ELSE x.v)
ToFloat(x) == PyFloat(x.v, x.h)

\* ------------------------------------------------------------ datatypes
dt_uint8 == <<"u", "i", "n", "t", "8">>
dt_int8 == <<"i", "n", "t", "8">>
dt_uint16 == <<"u", "i", "n", "t", "1", "6">>
dt_int16 == <<"i", "n", "t", "1", "6">>
dt_int32 == <<"i", "n", "t", "3", "2">>
dt_float == <<"f", "l", "o", "a", "t">>
dt_double == <<"d", "o", "u", "b", "l", "e">>
dt_boolean == <<"b", "o", "o", "l", "e", "a", "n">>
dt_string == <<"s", "t", "r", "i", "n", "g">>

\* INT_BOUNDS; the rows of uint32, int64 and uint64 exceed TLC's 32-bit
\* integers and are left out: no modelled leaf uses those datatypes.
INT_BOUNDS ==
    (dt_uint8 :> <<0, 2 ^ 8 - 1>>) @@ (dt_int8 :> <<-(2 ^ 7), 2 ^ 7 - 1>>) @@
    (dt_uint16 :> <<0, 2 ^ 16 - 1>>) @@ (dt_int16 :> <<-(2 ^ 15), 2 ^ 15 - 1>>) @@
    (dt_int32 :> <<-(2 ^ 30) - 2 ^ 30, (2 ^ 30 - 1) + 2 ^ 30>>)

\* FLOAT_BOUNDS and DOUBLE_BOUNDS are (-m, m) for the largest finite single
\* and double m; TLC has no floating point, so FloatMax and DoubleMax stand
\* for 3.4028234663852886e38 and 1.7976931348623157e308.
FloatMax == 1000000
DoubleMax == 2000000
FLOAT_BOUNDS == <<-FloatMax, FloatMax>>
DOUBLE_BOUNDS == <<-DoubleMax, DoubleMax>>

UpperAlpha == <<"A", "B", "C", "D", "E", "F", "G", "H", "I", "J", "K", "L", "M",
                "N", "O", "P", "Q", "R", "S", "T", "U", "V", "W", "X", "Y", "Z">>
LowerAlpha == <<"a", "b", "c", "d", "e", "f", "g", "h", "i", "j", "k", "l", "m",
                "n", "o", "p", "q", "r", "s", "t", "u", "v", "w", "x", "y", "z">>
\* str.lower()
Lower(s) ==
    [k \in 1..Len(s) |->
        IF \E a \in 1..26 : UpperAlpha[a] = s[k]
        THEN LowerAlpha[CHOOSE a \in 1..26 : UpperAlpha[a] = s[k]]
        ELSE s[k]]
\* 'int' in s
HasInt(s) == \E k \in 1..(Len(s) - 2) : SubSeq(s, k, k + 2) = <<"i", "n", "t">>

Datatype == {dt_double, dt_float, dt_int16, dt_int32, dt_int8, dt_uint16, dt_uint8,
             dt_boolean, dt_string}
NonNumeric == {dt_string, dt_boolean}

\* ---------------------------------------------------------------- units
\* registry.parse_units(unit) of the default registry, on the unit strings
\* the modelled leaves use: [ok, dimensionless]. '%' is defined dimensionless
\* by the registry setup; 'bogus' is not a unit.
ParseUnits(u) ==
    IF ~IsStr(u) THEN [ok |-> FALSE]
    ELSE IF u.v \in {"dimensionless", "%"} THEN [ok |-> TRUE, dimensionless |-> TRUE]
    ELSE IF u.v = "km/h" THEN [ok |-> TRUE, dimensionless |-> FALSE]
    ELSE [ok |-> FALSE]

\* --------------------------------------------------------------- Signal
\* Signal.clamp on the fields (datatype, min, max) of a Signal
clamp(datatype, smin, smax, value) ==
    IF datatype \in NonNumeric THEN Raise("ValueError", "cannot clamp numeric value")
    ELSE IF ~IsNum(value) THEN Raise("TypeError", "not supported between instances")
    ELSE LET c == PyMax(PyMin(value, smax), smin) IN
         IF datatype \in {dt_float, dt_double} THEN ToFloat(c) ELSE ToInt(c)

\* the natural (low, high) of a numeric datatype, lines 100-111
NaturalBounds(datatype) ==
    IF HasInt(datatype)
    THEN IF datatype \in DOMAIN INT_BOUNDS
         THEN [low |-> PyInt(INT_BOUNDS[datatype][1]), high |-> PyInt(INT_BOUNDS[datatype][2])]
         ELSE Raise("ValueError", "unrecognized datatype")
    ELSE IF datatype = dt_float
    THEN [low |-> PyFloat(FLOAT_BOUNDS[1], 0), high |-> PyFloat(FLOAT_BOUNDS[2], 0)]
    ELSE IF datatype = dt_double
    THEN [low |-> PyFloat(DOUBLE_BOUNDS[1], 0), high |-> PyFloat(DOUBLE_BOUNDS[2], 0)]
    ELSE Raise("ValueError", "unrecognized datatype")

\* lines 113-116: min from the author's min and the natural low
DeriveMin(amin, low) == IF amin.t = "None" THEN low ELSE PyMax(amin, low)
\* lines 117-120: max from the author's max and the natural high
DeriveMax(amax, high) == IF amax.t = "None" THEN high ELSE PyMin(amax, high)

\* lines 124-127: the default's kind does not match the datatype
DefaultKindMismatch(default, datatype) ==
    \/ IsInstFloat(default) /\ datatype \notin {dt_float, dt_double}
    \/ IsInstInt(default) /\ ~HasInt(datatype)
    \/ IsInstBool(default) /\ datatype # dt_boolean
    \/ IsStr(default) /\ datatype # dt_string

\* line 131: the default must be its own clamp; None when it passes
DefaultInBounds(c, default) ==
    IF IsExc(c) THEN c
    ELSE IF ~NumEq(c, default) THEN Raise("ValueError", "default value is illegal")
    ELSE PyNone

\* lines 122-132: None when the default passes, else the exception
CheckDefault(default, datatype, smin, smax) ==
    IF default.t = "None" THEN PyNone
    ELSE IF DefaultKindMismatch(default, datatype)
    THEN Raise("ValueError", "default value type does not match")
    ELSE DefaultInBounds(clamp(datatype, smin, smax, default), default)

SignalInit == {"datatype", "description", "type", "uuid", "default", "enum", "max",
               "min", "unit"}
SignalRequired == {"datatype", "description", "type", "uuid"}
Field(kw, k, dflt) == IF k \in DOMAIN kw THEN kw[k] ELSE dflt

\* check_type of the fields against the dataclass annotations (__type_check);
\* the datatypes left out of INT_BOUNDS never reach it.
TypeCheckFails(s) ==
    \/ s.datatype \notin Datatype
    \/ ~IsStr(s.description)
    \/ ~(IsStr(s.type) /\ s.type.v \in {"sensor", "attribute", "actuator"})
    \/ ~IsStr(s.uuid)
    \/ s.default.t \notin {"None", "str", "bool", "float", "int"}
    \/ s.enum.t \notin {"None", "set"}
    \/ s.max.t \notin {"None", "float", "int", "bool"}
    \/ s.min.t \notin {"None", "float", "int", "bool"}
    \/ ~IsStr(s.unit)

\* line 152: the Signal, once every field passes its annotation
TypeChecked(s) == IF TypeCheckFails(s) THEN Raise("TypeError", "type of field") ELSE s

\* line 97: enum becomes a set
EnumSet(enum) == IF enum.t = "None" THEN PyNone ELSE [t |-> "set", v |-> enum.v]

\* lines 122-152, given the outcome of the default check and the parsed unit
Validated(namespace, kw, datatype, smin, smax, dchk, pint_unit) ==
    IF IsExc(dchk) THEN dchk
    ELSE IF ~pint_unit.ok THEN Raise("ValueError", "illegal unit")
    ELSE IF datatype \in NonNumeric /\ ~pint_unit.dimensionless
    THEN Raise("ValueError", "datatype is not compatible with unit")
    ELSE IF Len(namespace) = 0 THEN Raise("ValueError", "namespace must contain at least one key")
    ELSE IF \E k \in 1..Len(namespace) : Len(namespace[k]) = 0
    THEN Raise("ValueError", "namespace cannot contain an empty key")
    ELSE TypeChecked(
            [t |-> "Signal", datatype |-> datatype, description |-> kw.description,
             namespace |-> namespace, type |-> kw.type, uuid |-> kw.uuid,
             default |-> Field(kw, "default", PyNone),
             enum |-> EnumSet(Field(kw, "enum", PyNone)), max |-> smax, min |-> smin,
             unit |-> Field(kw, "unit", PyStr("dimensionless"))])

\* lines 122-139, with min and max as lines 99-120 leave them
WithBounds(namespace, kw, datatype, smin, smax) ==
    Validated(namespace, kw, datatype, smin, smax,
              CheckDefault(Field(kw, "default", PyNone), datatype, smin, smax),
              ParseUnits(Field(kw, "unit", PyStr("dimensionless"))))

\* lines 113-120, given the natural bounds of the datatype
Narrowed(namespace, kw, datatype, amin, amax, nat) ==
    IF IsExc(nat) THEN nat
    ELSE IF ~(amin.t = "None" \/ IsNum(amin)) \/ ~(amax.t = "None" \/ IsNum(amax))
    THEN Raise("TypeError", "not supported between instances")
    ELSE WithBounds(namespace, kw, datatype, DeriveMin(amin, nat.low),
                    DeriveMax(amax, nat.high))

\* Signal.__post_init__ from line 91 on, with the lower-cased datatype
PostInit(namespace, kw, datatype, enum, amin, amax) ==
    IF enum.t # "None" /\ datatype # dt_string
    THEN Raise("ValueError", "enum provided for non-string datatype")
    ELSE IF enum.t \notin {"None", "list"} THEN Raise("TypeError", "object is not iterable")
    ELSE IF datatype \in NonNumeric THEN WithBounds(namespace, kw, datatype, amin, amax)
    ELSE Narrowed(namespace, kw, datatype, amin, amax, NaturalBounds(datatype))

\* Signal(namespace=namespace, reg=reg, **kw): the dataclass __init__ and
\* __post_init__; a Signal record or the exception raised.
Signal(namespace, kw) ==
    IF ~(DOMAIN kw \subseteq SignalInit) THEN Raise("TypeError", "unexpected keyword argument")
    ELSE IF ~(SignalRequired \subseteq DOMAIN kw) THEN Raise("TypeError", "missing required argument")
    ELSE IF ~IsStr(kw.datatype) THEN Raise("AttributeError", "has no attribute lower")
    ELSE PostInit(namespace, kw, Lower(kw.datatype.v), Field(kw, "enum", PyNone),
                  Field(kw, "min", PyNone), Field(kw, "max", PyNone))

\* ------------------------------------------------------------- resolver
\* variant of DropInstances: 'instances' is deleted from the node itself
DropInstancesInPlace(branch) ==
    [kw |-> [k \in DOMAIN branch.v \ {"instances"} |-> branch.v[k]],
     branch |-> PyDict([k \in DOMAIN branch.v \ {"instances"} |-> branch.v[k]])]

\* lines 265-266: the keyword arguments of Signal are a new dict without
\* 'instances'; the node the tree holds is left as it was.
DropInstances(branch) ==
    [kw |-> [k \in DOMAIN branch.v \ {"instances"} |-> branch.v[k]],
     branch |-> branch]

\* lines 268-272: a ValueError or TypeError of the construction is wrapped
Wrapped(sig, branch) ==
    [out |-> IF IsExc(sig) /\ sig.exc \in {"ValueError", "TypeError"}
             THEN Raise("VSSSpecError", "malformed sensor specification")
             ELSE sig,
     branch |-> branch]
Construct(d, namespace) == Wrapped(Signal(namespace, d.kw), d.branch)

\* lines 257-272: the namespace is exhausted at this node
MakeSignal(branch, namespace, type_) ==
    IF IsStr(type_) /\ type_.v = "branch"
    THEN [out |-> Raise("VSSBranchError", "is a branch, not a signal"), branch |-> branch]
    ELSE Construct(DropInstances(branch), namespace)

\* variant of AfterInstances: a segment that matches no instance is left for
\* the child lookup
AfterInstancesBacktrack(branch, namespace, idx) ==
    IF "instances" \in DOMAIN branch.v
    THEN IF "exc" \in DOMAIN _parse_instances(branch.v["instances"], namespace, idx)
         THEN [val |-> idx]
         ELSE _parse_instances(branch.v["instances"], namespace, idx)
    ELSE [val |-> idx]

\* lines 249-254: the index after the node's instances, if it declares any
AfterInstances(branch, namespace, idx) ==
    IF "instances" \in DOMAIN branch.v
    THEN _parse_instances(branch.v["instances"], namespace, idx)
    ELSE [val |-> idx]

\* the trace of one node: the index at entry and after its instances
Entered(branch, idx, after) ==
    IF "instances" \in DOMAIN branch.v
    THEN <<[ev |-> "enter", idx |-> idx], [ev |-> "instances", idx |-> after]>>
    ELSE <<[ev |-> "enter", idx |-> idx]>>

WithTrace(m, tr) == [out |-> m.out, branch |-> m.branch, trace |-> tr]

\* line 288: the result of the recursive call c, in the node that made it
Returned(branch, children, key, tr, c) ==
    [out |-> c.out,
     branch |-> PyDict([branch.v EXCEPT
                    !["children"] = PyDict([children.v EXCEPT ![key] = c.branch])]),
     trace |-> tr \o c.trace]

\* _find_signal(reg, branch, namespace, idx): the outcome (a Signal or the
\* exception), the node as the call leaves it, and the trace of the descent
\* (the index at entry, after the instances, and at each child lookup).
RECURSIVE _find_signal(_, _, _)
\* lines 282-288
LookupChild(branch, children, namespace, idx, tr) ==
    IF ~IsDictV(children)
    THEN [out |-> Raise("TypeError", "children is not subscriptable by str"),
          branch |-> branch, trace |-> tr]
    ELSE IF namespace[idx + 1] \notin DOMAIN children.v
    THEN [out |-> Raise("VSSBranchError", "has no such child"),
          branch |-> branch, trace |-> tr]
    ELSE Returned(branch, children, namespace[idx + 1], tr,
                  _find_signal(children.v[namespace[idx + 1]], namespace, idx + 1))

\* lines 256-288, with idx the index after the instances
Descend(branch, namespace, idx, tr) ==
    IF idx = Len(namespace)
    THEN WithTrace(MakeSignal(branch, namespace, Field(branch.v, "type", PyStr("branch"))), tr)
    ELSE IF "children" \notin DOMAIN branch.v
    THEN [out |-> Raise("VSSBranchError", "attempted to follow branch from leaf node"),
          branch |-> branch, trace |-> tr]
    ELSE LookupChild(branch, branch.v["children"], namespace, idx,
                     Append(tr, [ev |-> "child", idx |-> idx]))

\* lines 248-254, with r the outcome of the instance matcher
Matched(branch, namespace, idx, r) ==
    IF IsExc(r)
    THEN [out |-> r, branch |-> branch, trace |-> <<[ev |-> "enter", idx |-> idx]>>]
    ELSE Descend(branch, namespace, r.val, Entered(branch, idx, r.val))

_find_signal(branch, namespace, idx) ==
    IF ~IsDictV(branch)
    THEN [out |-> Raise("TypeError", "type of argument branch must be a dict"),
          branch |-> branch, trace |-> <<[ev |-> "enter", idx |-> idx]>>]
    ELSE Matched(branch, namespace, idx, AfterInstances(branch, namespace, idx))

\* line 332: "raise VSSSpecError('invalid VSS tree structure') from e" -- e is
\* bound only inside the except clause of lines 320-321, so evaluating the
\* cause fails before the VSSSpecError is raised.
InvalidTreeStructure ==
    Raise("UnboundLocalError", "local variable 'e' referenced before assignment")

\* typeguard's check of find_signal's arguments name and spec
TypeOkName(nm) ==
    \/ IsStr(nm)
    \/ nm.t = "tuple" /\ \A k \in 1..Len(nm.v) : IsStr(nm.v[k])
Segments(nm) == IF IsStr(nm) THEN Split(nm.v, <<>>) ELSE [k \in 1..Len(nm.v) |-> nm.v[k].v]

\* load_tree() with the packaged file in one of its conditions
load_tree(file, builtin) ==
    IF file = "missing" THEN Raise("FileNotFoundError", "failed to open VSS tree")
    ELSE IF file = "undecodable" THEN Raise("VSSSpecError", "invalid VSS tree JSON")
    ELSE IF file = "not_object" THEN Raise("TypeError", "type of the return value must be a dict")
    ELSE builtin

\* lines 329-332: a TypeError of the descent f is re-raised
Reraised(spec, key, f) ==
    [out |-> IF IsExc(f.out) /\ f.out.exc = "TypeError" THEN InvalidTreeStructure
             ELSE f.out,
     spec |-> PyDict([spec.v EXCEPT ![key] = f.branch]),
     trace |-> f.trace]

\* lines 323-332 of find_signal, on the tree in use
Resolve(namespace, spec) ==
    IF namespace[1] \notin DOMAIN spec.v
    THEN [out |-> Raise("VSSBranchError", "no such domain"), spec |-> spec, trace |-> <<>>]
    ELSE Reraised(spec, namespace[1], _find_signal(spec.v[namespace[1]], namespace, 1))

\* lines 317-321: the outcome of load_tree() stands in for the missing spec
Loaded(namespace, loaded) ==
    IF IsExc(loaded)
    THEN [out |-> IF loaded.exc = "TypeError"
                  THEN Raise("VSSSpecError", "invalid VSS tree JSON") ELSE loaded,
          spec |-> PyNone, trace |-> <<>>]
    ELSE Resolve(namespace, loaded)

\* lines 313-332, with the name as a tuple of segments
Named(namespace, spec, file, builtin) ==
    IF \E k \in 1..Len(namespace) : Len(namespace[k]) = 0
    THEN [out |-> Raise("ValueError", "namespace cannot contain an empty key"),
          spec |-> spec, trace |-> <<>>]
    ELSE IF spec.t = "None" THEN Loaded(namespace, load_tree(file, builtin))
    ELSE Resolve(namespace, spec)

\* find_signal(name, spec): [out, spec, trace]; spec is the tree in use as the
\* call leaves it. With spec None the tree is load_tree()'s, read from the
\* packaged file, whose condition is `file` and whose content is `builtin`.
find_signal(nm, spec, file, builtin) ==
    IF ~TypeOkName(nm)
    THEN [out |-> Raise("TypeError", "type of argument name"), spec |-> spec, trace |-> <<>>]
    ELSE IF ~(IsDictV(spec) \/ spec.t = "None")
    THEN [out |-> Raise("TypeError", "type of argument spec"), spec |-> spec, trace |-> <<>>]
    ELSE IF Len(nm.v) = 0
    THEN [out |-> Raise("ValueError", "namespace must contain at least one key"),
          spec |-> spec, trace |-> <<>>]
    ELSE Named(Segments(nm), spec, file, builtin)

\* --------------------------------------------------------------- inputs
\* namespace segments and instance strings, as character sequences
sA == <<"A">>
sB == <<"B">>
sD == <<"D">>
sE == <<"E">>
sI == <<"I">>
sK == <<"K">>
sL == <<"L">>
sN == <<"N">>
sR == <<"R">>
sS == <<"S">>
sV == <<"V">>
sX == <<"X">>
sR1 == <<"R", "1">>
sR2 == <<"R", "2">>
sT1 == <<"T", "1">>
sRange12 == <<"R", "[", "1", ",", "2", "]">>
sTange12 == <<"T", "[", "1", ",", "2", "]">>
sRange21 == <<"R", "[", "2", ",", "1", "]">>
sRange22 == <<"R", "[", "2", ",", "2", "]">>
sRow == <<"R", "o", "w">>

\* a leaf node with the four required fields and the given further fields
Leaf(datatype, more) ==
    PyDict([type |-> PyStr("sensor"), datatype |-> datatype,
            description |-> PyStr("d"), uuid |-> PyStr("u")] @@ more)
NoMore == [k \in {} |-> PyNone]

\* the instance specifications a node of the modelled trees may declare
InstanceSpecs == <<
    PyStr(sRange12),
    PyList(<<PyStr(sL), PyStr(sR)>>),
    PyList(<<PyStr(sRange12), PyList(<<PyStr(sL), PyStr(sR)>>)>>),
    PyList(<<PyStr(sRange12)>>),
    PyList(<<PyStr(sRange12), PyStr(sTange12)>>),
    PyList(<<PyStr(sRange12), PyStr(sL)>>),
    PyList(<<>>),
    PyList(<<PyList(<<>>), PyList(<<PyStr(sL)>>)>>),
    PyList(<<PyStr(sRange21)>>),
    PyList(<<PyStr(sL), PyStr(sRange21)>>),
    PyStr(sRange22),
    PyStr(sRow),
    PyList(<<PyList(<<PyStr(sL)>>), PyStr(sL)>>),
    PyInt(5),
    PyList(<<PyList(<<PyInt(5)>>)>>) >>

\* A tree in the shape of the packaged one: a plain leaf A, a branch S (which
\* declares instances when `inst` is given) with children I, R1 and L, a leaf B
\* that declares instances itself, and a branch V holding a good leaf and
\* malformed nodes.
Tree(inst) ==
    PyDict(
      (sA :> Leaf(PyStr(dt_int32),
                  [min |-> PyInt(-250), max |-> PyInt(250), unit |-> PyStr("km/h")])) @@
      (sS :> PyDict(
                (IF inst.t = "None" THEN NoMore ELSE [instances |-> inst]) @@
                [children |-> PyDict(
                    (sI :> Leaf(PyStr(dt_boolean), NoMore)) @@
                    (sR1 :> Leaf(PyStr(dt_uint8), NoMore)) @@
                    (sL :> Leaf(PyStr(dt_uint8), NoMore)))])) @@
      (sB :> Leaf(PyStr(dt_uint8),
                  [instances |-> PyList(<<PyStr(sL), PyStr(sR)>>), unit |-> PyStr("%")])) @@
      (sV :> PyDict([type |-> PyStr("branch"), children |-> PyDict(
                (sA :> Leaf(PyStr(<<"U", "I", "n", "t", "8">>), NoMore)) @@
                (sN :> PyInt(5)) @@
                (sK :> PyDict([children |-> PyInt(5)])) @@
                (sD :> Leaf(PyInt(5), NoMore)) @@
                (sE :> Leaf(PyStr(dt_int8), [enum |-> PyList(<<"a">>)])))])))

Trees ==
    [k \in 1..Len(InstanceSpecs) |-> Tree(InstanceSpecs[k])] \o
    <<Tree(PyNone), PyDict(<<>>), PyInt(1)>>

\* the packaged tree load_tree() reads
BuiltinTree == Tree(PyStr(sRange12))
FileConditions == {"ok", "missing", "undecodable", "not_object"}

\* all tuples over `segs` of length at most n
RECURSIVE TuplesUpTo(_, _)
TuplesUpTo(segs, n) ==
    IF n = 0 THEN {<<>>}
    ELSE LET shorter == TuplesUpTo(segs, n - 1) IN
         shorter \cup {Append(t, x) : t \in shorter, x \in segs}

MaxTail == 2
Namespaces ==
    {<<sS>> \o t : t \in TuplesUpTo({sI, sR1, sL}, MaxTail)} \cup
    {<<sS, sR1, sL, sI>>, <<sS, sR1, sT1, sI>>, <<sS, sR1, sT1>>, <<sS, sT1>>,
     <<sS, sR2, sI>>, <<sS, sR2, sR, sI>>, <<sS, <<"R", "3">>, sI>>, <<sS, sR, sI>>,
     <<sS, sRange21>>, <<sS, sRange21, sI>>, <<sS, sRange12, sI>>, <<sS, sX>>,
     <<sV>>, <<sV, sA>>, <<sV, sA, sX>>, <<sV, sN>>, <<sV, sN, sA>>, <<sV, sK>>,
     <<sV, sK, sA>>, <<sV, sD>>, <<sV, sE>>, <<sV, sX>>,
     <<sA>>, <<sA, sX>>, <<sB>>, <<sB, sL>>, <<sB, sX>>, <<sB, sL, sX>>, <<sX>>,
     <<sX, sA>>, <<sA, <<>>, sX>>, <<>>}
AsTuple(ns) == PyTuple([k \in 1..Len(ns) |-> PyStr(ns[k])])
\* dot-delimited names, and arguments of the wrong kind
OtherNames == <<
    PyStr(<<"A">>), PyStr(<<"S", ".", "R", "1", ".", "I">>), PyStr(<<>>), PyStr(<<".">>),
    PyStr(<<"A", ".", ".", "X">>), PyStr(<<"B", ".", "L">>), PyInt(1), PyNone,
    PyTuple(<<PyInt(1)>>) >>

NoResult == [out |-> PyNone, trace |-> <<>>, spec |-> PyNone]
NoClamp == PyNone
NoParse == [instances |-> PyNone, namespace |-> <<>>, idx |-> 0]

\* -------------------------------------------------------------- actions
\* one call find_signal(nm, tree) on the tree the caller holds
Outcome(nm, passed, r) ==
    /\ tree' = (IF passed THEN r.spec ELSE tree)
    /\ result' = [out |-> r.out, trace |-> r.trace, spec |-> r.spec]
    /\ name' = nm
    /\ calls' = calls + 1
    /\ UNCHANGED <<tree0, clampIn, clampOut, pin, pout>>

Call(nm, spec, file) ==
    /\ calls < MaxCalls
    /\ Outcome(nm, spec.t # "None", find_signal(nm, spec, file, BuiltinTree))

FindSignal == \E ns \in Namespaces : Call(AsTuple(ns), tree, "ok")
FindSignalStr == \E k \in 1..Len(OtherNames) : Call(OtherNames[k], tree, "ok")
FindSignalBuiltin ==
    \E ns \in {<<sA>>, <<sS, sR1, sI>>, <<sX>>, <<>>}, file \in FileConditions :
        Call(AsTuple(ns), PyNone, file)

Init ==
    /\ \E k \in 1..Len(Trees) : tree = Trees[k]
    /\ tree0 = tree
    /\ name = PyNone
    /\ result = NoResult
    /\ calls = 0
    /\ clampIn = NoClamp
    /\ clampOut = NoClamp
    /\ pin = NoParse
    /\ pout = PyNone

Next == FindSignal \/ FindSignalStr \/ FindSignalBuiltin

Spec == Init /\ [][Next]_vars

\* ------------------------------------------- Signal construction, clamp
\* the leaves a tree author may write: datatype, min, max, default
SigDatatypes == <<
    dt_uint8, dt_int8, dt_int16, dt_int32, dt_float, dt_double, dt_boolean, dt_string,
    <<"I", "n", "t", "8">>, <<"b", "o", "g", "u", "s">>, <<"u", "i", "n", "t", "1", "2", "8">> >>
AuthorMins == <<PyNone, PyInt(-5), PyInt(10), PyFloat(0, 1), PyInt(300), PyInt(3000000)>>
AuthorMaxs == <<PyNone, PyInt(5), PyFloat(2, 1), PyInt(-200), PyInt(-3000000)>>
Defaults == <<PyNone, PyInt(0), PyInt(3), PyInt(10), PyInt(1000), PyFloat(1, 1),
              PyFloat(3, 0), PyBool(TRUE), PyStr("x")>>
ClampValues == <<PyInt(-1000), PyInt(0), PyInt(7), PyFloat(0, 1), PyFloat(-1, 1),
                 PyInt(1000), PyInt(4000000)>>

Optional(k, x) == IF x.t = "None" THEN NoMore ELSE (k :> x)
LeafTree(datatype, amin, amax, default) ==
    PyDict(sV :> Leaf(PyStr(datatype),
        Optional("min", amin) @@ Optional("max", amax) @@ Optional("default", default)))

InitSignal ==
    /\ \E d \in 1..Len(SigDatatypes), lo \in 1..Len(AuthorMins),
          hi \in 1..Len(AuthorMaxs), df \in 1..Len(Defaults) :
            tree = LeafTree(SigDatatypes[d], AuthorMins[lo], AuthorMaxs[hi], Defaults[df])
    /\ tree0 = tree
    /\ name = PyNone
    /\ result = NoResult
    /\ calls = 0
    /\ clampIn = NoClamp
    /\ clampOut = NoClamp
    /\ pin = NoParse
    /\ pout = PyNone

\* find_signal('V', tree): the construction of the leaf's Signal
FindLeaf == Call(AsTuple(<<sV>>), tree, "ok")

\* sig.clamp(value) on the Signal the last call returned
Clamp ==
    /\ ~IsExc(result.out)
    /\ result.out.t = "Signal"
    /\ \E k \in 1..Len(ClampValues) :
        /\ clampIn' = ClampValues[k]
        /\ clampOut' = clamp(result.out.datatype, result.out.min, result.out.max,
                             ClampValues[k])
    /\ UNCHANGED <<tree, tree0, name, result, calls, pin, pout>>

NextSignal == FindLeaf \/ Clamp

SpecSignal == InitSignal /\ [][NextSignal]_vars

\* ------------------------------------------------------ _parse_instances
PSegments == {sR1, sL, sT1, sX, sRange21, sRange12}
InitInst ==
    /\ \E k \in 1..Len(InstanceSpecs), ns \in TuplesUpTo(PSegments, MaxTail) :
        \E i \in 0..Len(ns) :
            pin = [instances |-> InstanceSpecs[k], namespace |-> ns, idx |-> i]
    /\ pout = PyNone
    /\ tree = PyDict(<<>>)
    /\ tree0 = tree
    /\ name = PyNone
    /\ result = NoResult
    /\ calls = 0
    /\ clampIn = NoClamp
    /\ clampOut = NoClamp

\* one call _parse_instances(instances, namespace, idx)
ParseInstances ==
    /\ pout = PyNone
    /\ pout' = _parse_instances(pin.instances, pin.namespace, pin.idx)
    /\ UNCHANGED <<tree, tree0, name, result, calls, clampIn, clampOut, pin>>

NextInst == ParseInstances

SpecInst == InitInst /\ [][NextInst]_vars
\* =============================================================== claims
\* the last call was made with a well-typed, non-empty name without empty keys
ValidName ==
    /\ calls > 0
    /\ TypeOkName(name)
    /\ Len(name.v) > 0
    /\ \A k \in 1..Len(Segments(name)) : Len(Segments(name)[k]) > 0
Failed(cls) == IsExc(result.out) /\ result.out.exc = cls
FailedWith(cls, m) == Failed(cls) /\ result.out.msg = m
Returned_Signal == ~IsExc(result.out) /\ result.out.t = "Signal"
NameIs(ns) == ValidName /\ Segments(name) = ns

\* the node reached by following child keys only, through well-formed nodes
\* that declare no instances; i segments are consumed when the walk stops
RECURSIVE PlainWalk(_, _, _)
PlainWalk(node, ns, i) ==
    IF /\ IsDictV(node)
       /\ "instances" \notin DOMAIN node.v
       /\ i < Len(ns)
       /\ "children" \in DOMAIN node.v
       /\ IsDictV(node.v["children"])
       /\ ns[i + 1] \in DOMAIN node.v["children"].v
    THEN PlainWalk(node.v["children"].v[ns[i + 1]], ns, i + 1)
    ELSE [node |-> node, i |-> i]

\* the range a string 'Prefix[lower,upper]' denotes, as a set of names
RangeNames(str) ==
    IF RangeMatch(str) = {} THEN {}
    ELSE LET p == CHOOSE q \in RangeMatch(str) : TRUE IN
         {SubSeq(str, 1, p[1] - 1) \o IntToStr(i) :
            i \in StrToInt(SubSeq(str, p[1] + 1, p[2] - 1))..
                  StrToInt(SubSeq(str, p[2] + 1, Len(str) - 1))}
IsRange(str) == RangeMatch(str) # {}
ValidRange(str) == IsRange(str) /\ Cardinality(RangeNames(str)) >= 2

\* an instance specification of one of the three shapes of the data model
WellFormedInstances(i) ==
    \/ IsStr(i) /\ ValidRange(i.v)
    \/ /\ IsList(i)
       /\ Len(i.v) > 0
       /\ \A k \in 1..Len(i.v) :
            \/ IsStr(i.v[k]) /\ (~IsRange(i.v[k].v) \/ ValidRange(i.v[k].v))
            \/ IsList(i.v[k]) /\ Len(i.v[k].v) > 0 /\ AllStr(i.v[k].v)
       /\ (\E k \in 1..Len(i.v) : IsList(i.v[k])) =>
            \A k \in 1..Len(i.v) : IsStr(i.v[k]) => ValidRange(i.v[k].v)

\* every name a segment after the node could be matched against, under any
\* reading of the specification (literal elements, expanded ranges, axes)
InstanceNames(i) ==
    IF IsStr(i) THEN RangeNames(i.v)
    ELSE UNION {IF IsStr(i.v[k]) THEN {i.v[k].v} \cup RangeNames(i.v[k].v)
                ELSE {i.v[k].v[j].v : j \in 1..Len(i.v[k].v)} : k \in 1..Len(i.v)}

DeclaresInstances(node) ==
    IsDictV(node) /\ "instances" \in DOMAIN node.v /\ WellFormedInstances(node.v["instances"])

\* the navigation failures at the node where the plain walk stops
NavigationFailure(node, ns, i) ==
    \/ /\ IsDictV(node) /\ "instances" \notin DOMAIN node.v
       /\ \/ /\ i = Len(ns)
             /\ \/ "type" \notin DOMAIN node.v
                \/ IsStr(node.v["type"]) /\ node.v["type"].v = "branch"
          \/ i < Len(ns) /\ "children" \notin DOMAIN node.v
          \/ /\ i < Len(ns) /\ "children" \in DOMAIN node.v
             /\ IsDictV(node.v["children"])
             /\ ns[i + 1] \notin DOMAIN node.v["children"].v
    \/ /\ DeclaresInstances(node)
       /\ \/ i = Len(ns)
          \/ i < Len(ns) /\ ns[i + 1] \notin InstanceNames(node.v["instances"])

Stopped(ns) == PlainWalk(result.spec.v[ns[1]], ns, 1)

\* C1: the tree is deep-equal, after any sequence of find_signal calls
\* (returning or failing), to the copy taken before the first call.
C1_TreeNotModified == tree = tree0

\* C1 witness: two calls were made and the last one built a Signal from a
\* leaf that declares instances, whose 'instances' key was dropped.
C1_Witness ==
    /\ calls = 2
    /\ NameIs(<<sB, sL>>)
    /\ Returned_Signal
    /\ tree = tree0

\* C6: every navigation failure raises VSSBranchError: no such domain, no
\* such child, branch followed from a leaf, namespace ending at a branch, a
\* segment not among a node's instance names, a namespace ending where
\* instance names are expected.
C6_NavigationRaisesBranchError ==
    (ValidName /\ IsDictV(result.spec)) =>
        LET ns == Segments(name) IN
        IF ns[1] \notin DOMAIN result.spec.v THEN FailedWith("VSSBranchError", "no such domain")
        ELSE NavigationFailure(Stopped(ns).node, ns, Stopped(ns).i) => Failed("VSSBranchError")

\* C6 witness: the segment after a node with instances is none of its
\* instance names, and the call failed with VSSBranchError.
C6_Witness ==
    /\ NameIs(<<sS, sT1>>) /\ IsDictV(result.spec)
    /\ DeclaresInstances(result.spec.v[sS])
    /\ sT1 \notin InstanceNames(result.spec.v[sS].v["instances"])
    /\ FailedWith("VSSBranchError", "illegal instance")

\* C7: the descent never goes back: the index never decreases, and at a node
\* that declares instances the child lookup never happens at the index the
\* node was entered with; a segment that is a child key but no instance name
\* fails with VSSBranchError, and so does a namespace ending at the node
\* ("has instances, expected one of").
C7_NoBacktracking ==
    (ValidName /\ IsDictV(result.spec) /\ Segments(name)[1] \in DOMAIN result.spec.v) =>
        LET ns == Segments(name)
            node == Stopped(ns).node
            i == Stopped(ns).i
            tr == result.trace
        IN /\ \A k \in 1..(Len(tr) - 1) : tr[k].idx <= tr[k + 1].idx
           /\ DeclaresInstances(node) =>
                /\ \A k \in 1..Len(tr) : tr[k].ev = "child" => tr[k].idx # i
                /\ i = Len(ns) =>
                     FailedWith("VSSBranchError", "has instances, expected one of")
                /\ (/\ i < Len(ns)
                    /\ ns[i + 1] \notin InstanceNames(node.v["instances"])
                    /\ "children" \in DOMAIN node.v
                    /\ ns[i + 1] \in DOMAIN node.v["children"].v) =>
                     FailedWith("VSSBranchError", "illegal instance")

\* C7 witness: S declares instances, I is a child of S and no instance name,
\* and find_signal(('S', 'I')) failed with VSSBranchError.
C7_Witness ==
    /\ NameIs(<<sS, sI>>) /\ IsDictV(result.spec)
    /\ DeclaresInstances(result.spec.v[sS])
    /\ sI \in DOMAIN result.spec.v[sS].v["children"].v
    /\ sI \notin InstanceNames(result.spec.v[sS].v["instances"])
    /\ FailedWith("VSSBranchError", "illegal instance")

\* C8: every call returns a Signal or fails with one of the four kinds
\* (argument validation: TypeError/ValueError, VSSBranchError, VSSSpecError,
\* FileNotFoundError), and a descent that meets a node or a children value
\* that is no mapping, or an instances value of the wrong type, in a tree the
\* caller passed fails with VSSSpecError.
C8_FourFailureKinds ==
    calls > 0 =>
        /\ \/ Returned_Signal
           \/ result.out.exc \in {"TypeError", "ValueError", "VSSBranchError",
                                  "VSSSpecError", "FileNotFoundError"}
        /\ (ValidName /\ IsDictV(result.spec) /\ Segments(name)[1] \in DOMAIN result.spec.v) =>
            LET ns == Segments(name)
                node == Stopped(ns).node
            IN (\/ ~IsDictV(node)
                \/ /\ "instances" \in DOMAIN node.v
                   /\ ~TypeOkInstances(node.v["instances"])
                \/ /\ "instances" \notin DOMAIN node.v
                   /\ Stopped(ns).i < Len(ns)
                   /\ "children" \in DOMAIN node.v
                   /\ ~IsDictV(node.v["children"]))
               => Failed("VSSSpecError")
\* ------------------------------------------------ claims on the Signal
\* the leaf the tree holds under 'V', and what its author wrote
AuthorLeaf == result.spec.v[sV].v
AuthorDatatype == Lower(AuthorLeaf["datatype"].v)
AuthorDefault == Field(AuthorLeaf, "default", PyNone)
\* the datatype family and the kind of a value
Family(datatype) ==
    IF HasInt(datatype) THEN "integral"
    ELSE IF datatype \in {dt_float, dt_double} THEN "floating"
    ELSE IF datatype = dt_boolean THEN "boolean"
    ELSE "text"
Kind(x) ==
    IF x.t = "int" THEN "integral"
    ELSE IF x.t = "float" THEN "floating"
    ELSE IF x.t = "bool" THEN "boolean"
    ELSE "text"
\* the bounds the construction derives for the leaf (numeric datatypes)
DerivedMin ==
    DeriveMin(Field(AuthorLeaf, "min", PyNone), NaturalBounds(AuthorDatatype).low)
DerivedMax ==
    DeriveMax(Field(AuthorLeaf, "max", PyNone), NaturalBounds(AuthorDatatype).high)
Within(x, lo, hi) == Le(lo, x) /\ Le(x, hi)
LeafCalled == calls > 0 /\ AuthorDatatype \in Datatype

\* C2: the min and the max of every constructed numeric Signal lie within
\* the natural range of its datatype, whatever bounds the author supplied.
C2_BoundsWithinNaturalRange ==
    (calls > 0 /\ Returned_Signal /\ result.out.datatype \notin NonNumeric) =>
        LET nat == NaturalBounds(result.out.datatype) IN
        /\ Within(result.out.min, nat.low, nat.high)
        /\ Within(result.out.max, nat.low, nat.high)

\* C3: on every constructed numeric Signal, clamp(x) returns a value r with
\* min <= r <= max.
C3_ClampWithinBounds ==
    (Returned_Signal /\ ~IsExc(clampOut) /\ clampOut.t # "None") =>
        Within(clampOut, result.out.min, result.out.max)

\* C4: a default of the wrong kind for the datatype family, or outside the
\* derived [min, max], makes the construction fail: find_signal raises
\* VSSSpecError and returns no Signal.
C4_BadDefaultFailsConstruction ==
    (LeafCalled /\ AuthorDefault.t # "None") =>
        ((\/ Kind(AuthorDefault) # Family(AuthorDatatype)
          \/ /\ AuthorDatatype \notin NonNumeric
             /\ ~Within(AuthorDefault, DerivedMin, DerivedMax))
         => Failed("VSSSpecError"))

\* C5: a default whose kind matches the datatype family (and, for a numeric
\* datatype, lies within [min, max]) is accepted: the Signal is constructed
\* and its default is the supplied value.
C5_MatchingDefaultAccepted ==
    (LeafCalled /\ AuthorDefault.t # "None") =>
        ((/\ Kind(AuthorDefault) = Family(AuthorDatatype)
          /\ AuthorDatatype \notin NonNumeric =>
                Within(AuthorDefault, DerivedMin, DerivedMax))
         => (Returned_Signal /\ result.out.default = AuthorDefault))

\* ------------------------------------------ claims on _parse_instances
Parsed == "t" \notin DOMAIN pout
Succeeded == Parsed /\ ~IsExc(pout)
FlatStrList(i) == IsList(i) /\ Len(i.v) > 0 /\ AllStr(i.v)
EmptyRange(str) == IsRange(str) /\ ~ValidRange(str)
\* the union of the per-element expansions of a flat list of strings
UnionNames(l) ==
    UNION {IF IsRange(l[k].v) THEN RangeNames(l[k].v) ELSE {l[k].v} : k \in 1..Len(l)}

C10_EmptySpecIsSpecError ==
    (Parsed /\ TypeOkInstances(pin.instances) /\
        \/ IsStr(pin.instances) /\ EmptyRange(pin.instances.v)
        \/ /\ IsList(pin.instances)
           /\ \/ Len(pin.instances.v) = 0
              \/ \E k \in 1..Len(pin.instances.v) :
                    \/ IsList(pin.instances.v[k]) /\ Len(pin.instances.v[k].v) = 0
                    \/ IsStr(pin.instances.v[k]) /\ EmptyRange(pin.instances.v[k].v))
    => (IsExc(pout) /\ pout.exc = "VSSSpecError")
====
